---- MODULE Spec2Model ----
(***************************************************************************)
(* College_ChatBot: the dialogue core (src/src/chatbot.py, class Chatbot)  *)
(* and the route /api/chat that serves it (src/app.py, chat).              *)
(* Text is modelled as a sequence of one-character strings, so that the    *)
(* substring tests, the regular expressions and the similarity score of    *)
(* the code are computed, character by character, as the code computes     *)
(* them.  An absent value (Python None) of a text field is the empty       *)
(* sequence; intent tags are TLA+ strings.                                 *)
(***************************************************************************)
EXTENDS Integers, Sequences, FiniteSets, TLC

VARIABLES context, current_department, last, calls, log, kb, served, threads, startup, probe

vars == <<context, current_department, last, calls, log, kb, served, threads, startup, probe>>

\* ---------------------------------------------------------------- text

None == <<>>

NoIntent == "None"

Digits == {"0","1","2","3","4","5","6","7","8","9"}

UpperAlpha == <<"A","B","C","D","E","F","G","H","I","J","K","L","M","N","O","P","Q","R","S","T","U","V","W","X","Y","Z">>

LowerAlpha == <<"a","b","c","d","e","f","g","h","i","j","k","l","m","n","o","p","q","r","s","t","u","v","w","x","y","z">>

\* the characters of the model in code-point order (Python compares str by code point)
CharOrder == <<" ","&","'","(",")",".","0","1","2","3","4","5","6","7","8","9","?","A","B","C","D","E","F","G","H","I","J","K","L","M","N","O","P","Q","R","S","T","U","V","W","X","Y","Z","_","a","b","c","d","e","f","g","h","i","j","k","l","m","n","o","p","q","r","s","t","u","v","w","x","y","z">>

Whitespace == {" ", "\t", "\n"}

\* \w of Python's re module
WordChars == Digits \cup {"_"} \cup {UpperAlpha[i] : i \in 1..26} \cup {LowerAlpha[i] : i \in 1..26}

Max(a, b) == IF a >= b THEN a ELSE b

Ord(c) == CHOOSE i \in 1..Len(CharOrder) : CharOrder[i] = c

LowerChar(c) == IF \E i \in 1..26 : UpperAlpha[i] = c THEN LowerAlpha[CHOOSE i \in 1..26 : UpperAlpha[i] = c] ELSE c

\* str.lower()
Lower(s) == SubSeq([i \in 1..Len(s) |-> LowerChar(s[i])], 1, Len(s))

RECURSIVE LStrip(_)
LStrip(s) == IF s # <<>> /\ Head(s) \in Whitespace THEN LStrip(Tail(s)) ELSE s

RECURSIVE RStrip(_)
RStrip(s) == IF s # <<>> /\ s[Len(s)] \in Whitespace THEN RStrip(SubSeq(s, 1, Len(s) - 1)) ELSE s

\* str.strip()
Strip(s) == RStrip(LStrip(s))

\* s[i:] starts with p  (i is a 1-based position)
MatchAt(p, s, i) == /\ i + Len(p) - 1 <= Len(s)
                    /\ \A k \in 1..Len(p) : s[i + k - 1] = p[k]

\* the Python test  p in s  on strings
Contains(p, s) == \E i \in 1..(Len(s) + 1) : MatchAt(p, s, i)

\* any(keyword in s for keyword in keywords)
AnyIn(keywords, s) == \E k \in 1..Len(keywords) : Contains(keywords[k], s)

\* str.split(): the maximal runs of non-whitespace characters, in order
RECURSIVE SplitFrom(_, _, _)
SplitFrom(s, i, cur) ==
    IF i > Len(s) THEN (IF cur = <<>> THEN <<>> ELSE <<cur>>)
    ELSE IF s[i] \in Whitespace
         THEN (IF cur = <<>> THEN <<>> ELSE <<cur>>) \o SplitFrom(s, i + 1, <<>>)
         ELSE SplitFrom(s, i + 1, Append(cur, s[i]))

Split(s) == SplitFrom(s, 1, <<>>)

\* re.match(r'^\d+$', s.strip())
IsBareInteger(s) == LET t == Strip(s) IN t # <<>> /\ \A i \in 1..Len(t) : t[i] \in Digits

\* \b of Python's re module at the gap before position i of s
WordBoundary(s, i) ==
    LET before == i > 1 /\ i - 1 <= Len(s) /\ s[i - 1] \in WordChars
        after  == i <= Len(s) /\ s[i] \in WordChars
    IN before # after

\* the end (exclusive) of the maximal run of characters of class cls that starts at i
RECURSIVE RunEnd(_, _, _)
RunEnd(s, i, cls) == IF i <= Len(s) /\ s[i] \in cls THEN RunEnd(s, i + 1, cls) ELSE i

\* ------------------------------------------------------ get_response: tables

\* the generic phrases that reset the remembered department
reset_keywords ==
  << <<"a","l","l"," ","c","o","u","r","s","e","s">>,
     <<"a","l","l"," ","p","r","o","g","r","a","m","s">>,
     <<"w","h","a","t"," ","c","o","u","r","s","e","s">>,
     <<"w","h","i","c","h"," ","c","o","u","r","s","e","s">>,
     <<"a","v","a","i","l","a","b","l","e"," ","c","o","u","r","s","e","s">>,
     <<"a","v","a","i","l","a","b","l","e"," ","p","r","o","g","r","a","m","s">>,
     <<"s","h","o","w"," ","c","o","u","r","s","e","s">>,
     <<"l","i","s","t"," ","c","o","u","r","s","e","s">>,
     <<"s","h","o","w"," ","p","r","o","g","r","a","m","s">>,
     <<"l","i","s","t"," ","p","r","o","g","r","a","m","s">>,
     <<"t","e","l","l"," ","m","e"," ","c","o","u","r","s","e","s">>,
     <<"t","e","l","l"," ","m","e"," ","p","r","o","g","r","a","m","s">> >>

reset_words ==
  << <<"c","o","u","r","s","e","s">>,
     <<"p","r","o","g","r","a","m","s">>,
     <<"c","o","u","r","s","e">>,
     <<"p","r","o","g","r","a","m">> >>

dept_keywords ==
  << <<"c","s","e">>,
     <<"c","o","m","p","u","t","e","r"," ","s","c","i","e","n","c","e">>,
     <<"c","s">>,
     <<"e","c","e">>,
     <<"e","l","e","c","t","r","o","n","i","c","s">>,
     <<"m","e","c","h","a","n","i","c","a","l">>,
     <<"m","e","c","h">>,
     <<"c","i","v","i","l">>,
     <<"e","e","e">>,
     <<"e","l","e","c","t","r","i","c","a","l">>,
     <<"i","t">>,
     <<"i","n","f","o","r","m","a","t","i","o","n"," ","t","e","c","h","n","o","l","o","g","y">>,
     <<"m","c","a">>,
     <<"m","b","a">>,
     <<"m","a","s","t","e","r">>,
     <<"b",".","t","e","c","h">>,
     <<"b","t","e","c","h">>,
     <<"e","n","g","i","n","e","e","r","i","n","g">> >>

sem_keywords ==
  << <<"s","e","m","e","s","t","e","r">>,
     <<"s","e","m">>,
     <<"1","s","t">>,
     <<"2","n","d">>,
     <<"3","r","d">>,
     <<"4","t","h">>,
     <<"5","t","h">>,
     <<"6","t","h">>,
     <<"7","t","h">>,
     <<"8","t","h">>,
     <<"f","i","r","s","t">>,
     <<"s","e","c","o","n","d">>,
     <<"t","h","i","r","d">>,
     <<"f","o","u","r","t","h">>,
     <<"f","i","f","t","h">>,
     <<"s","i","x","t","h">>,
     <<"s","e","v","e","n","t","h">>,
     <<"e","i","g","h","t","h">> >>

\* the keys of intent_patterns, in the dict's insertion order
intent_patterns ==
  << "greeting", "goodbye", "thanks", "college_timings", "departments", "facilities",
     "library", "hostel", "transport", "contact", "courses", "admission",
     "fees", "scholarship", "placements", "internship", "faculty", "principal",
     "events", "sports", "clubs", "exams", "attendance", "canteen",
     "labs", "alumni" >>

\* exact_matches, in the dict's insertion order
exact_matches ==
  << [intent |-> "departments", keywords |-> << <<"d","e","p","a","r","t","m","e","n","t","s">>, <<"d","e","p","a","r","t","m","e","n","t">>, <<"b","r","a","n","c","h","e","s">>, <<"b","r","a","n","c","h">> >>],
     [intent |-> "courses", keywords |-> << <<"c","o","u","r","s","e","s">>, <<"p","r","o","g","r","a","m","s">>, <<"w","h","a","t"," ","c","o","u","r","s","e","s">> >>],
     [intent |-> "events", keywords |-> << <<"e","v","e","n","t","s">>, <<"e","v","e","n","t">>, <<"f","e","s","t">>, <<"f","e","s","t","i","v","a","l">>, <<"w","o","r","k","s","h","o","p">> >>],
     [intent |-> "placements", keywords |-> << <<"p","l","a","c","e","m","e","n","t","s">>, <<"p","l","a","c","e","m","e","n","t">>, <<"c","o","m","p","a","n","i","e","s">>, <<"p","a","c","k","a","g","e">> >>],
     [intent |-> "hostel", keywords |-> << <<"h","o","s","t","e","l">>, <<"a","c","c","o","m","m","o","d","a","t","i","o","n">>, <<"h","o","s","t","e","l"," ","f","a","c","i","l","i","t","y">> >>],
     [intent |-> "library", keywords |-> << <<"l","i","b","r","a","r","y">>, <<"l","i","b","r","a","r","y"," ","f","a","c","i","l","i","t","y">>, <<"b","o","o","k","s">> >>],
     [intent |-> "canteen", keywords |-> << <<"c","a","n","t","e","e","n">>, <<"c","a","f","e","t","e","r","i","a">>, <<"f","o","o","d">> >>],
     [intent |-> "labs", keywords |-> << <<"l","a","b">>, <<"l","a","b","o","r","a","t","o","r","y">>, <<"c","o","m","p","u","t","e","r"," ","l","a","b">> >>],
     [intent |-> "sports", keywords |-> << <<"s","p","o","r","t","s">>, <<"s","p","o","r","t">>, <<"g","y","m">>, <<"p","l","a","y","g","r","o","u","n","d">> >>],
     [intent |-> "facilities", keywords |-> << <<"f","a","c","i","l","i","t","i","e","s">>, <<"i","n","f","r","a","s","t","r","u","c","t","u","r","e">>, <<"c","a","m","p","u","s">> >>],
     [intent |-> "admission", keywords |-> << <<"a","d","m","i","s","s","i","o","n">>, <<"a","d","m","i","s","s","i","o","n","s">>, <<"h","o","w"," ","t","o"," ","a","p","p","l","y">> >>],
     [intent |-> "contact", keywords |-> << <<"c","o","n","t","a","c","t">>, <<"p","h","o","n","e">>, <<"e","m","a","i","l">>, <<"a","d","d","r","e","s","s">> >>] >>

\* the length limits of a "short" query, and the acceptance thresholds
ShortQueryTokens == 5

ExactQueryTokens == 3

FuzzyThreshold == 60

\* the classifier's confidence floor 0.25, in hundredths
ConfidenceFloor == 25

\* ------------------------------------------------- get_response: the cascade

\* a turn of the context with intent 'courses' exists (the loop over reversed(self.context))
HasCoursesTurn(ctx) == \E i \in 1..Len(ctx) : ctx[i].intent = "courses"

\* the reset test of get_response
IsResetQuery(text_lower) ==
    \/ AnyIn(reset_keywords, text_lower)
    \/ \E k \in 1..Len(reset_words) : Strip(text_lower) = reset_words[k]

IsDeptQuery(text_lower) == AnyIn(dept_keywords, text_lower)

\* is_sem_query as first assigned: a semester keyword, or a bare integer
IsSemQuery(text_lower) ==
    \/ AnyIn(sem_keywords, text_lower)
    \/ IsBareInteger(text_lower)

\* the condition under which a keyword of the exact table counts
ExactKeywordHit(keyword, text_lower) ==
    /\ Contains(keyword, text_lower)
    /\ Len(Split(text_lower)) <= ExactQueryTokens
    /\ ~IsBareInteger(text_lower)

ExactEntryHit(entry, text_lower) ==
    \E k \in 1..Len(entry.keywords) : ExactKeywordHit(entry.keywords[k], text_lower)

\* a scan of exact_matches in which a later entry that hits replaces an earlier one
ExactIntentLastHit(text_lower) ==
    IF \E i \in 1..Len(exact_matches) : ExactEntryHit(exact_matches[i], text_lower)
    THEN LET final == CHOOSE i \in 1..Len(exact_matches) :
                        /\ ExactEntryHit(exact_matches[i], text_lower)
                        /\ \A j \in (i + 1)..Len(exact_matches) : ~ExactEntryHit(exact_matches[j], text_lower)
         IN exact_matches[final].intent
    ELSE NoIntent

\* Stage B: the first intent of exact_matches with a keyword that hits, else NoIntent
ExactIntent(text_lower) ==
    IF \E i \in 1..Len(exact_matches) : ExactEntryHit(exact_matches[i], text_lower)
    THEN LET first == CHOOSE i \in 1..Len(exact_matches) :
                        /\ ExactEntryHit(exact_matches[i], text_lower)
                        /\ \A j \in 1..(i - 1) : ~ExactEntryHit(exact_matches[j], text_lower)
         IN exact_matches[first].intent
    ELSE NoIntent

\* Stage C, the loop over intent_patterns: scores[tag] stands for
\* max(fuzz.partial_ratio(text_lower, pattern), fuzz.token_set_ratio(text_lower, pattern));
\* returns the pair (best_score, best_match) after the first i patterns
RECURSIVE BestMatch(_, _)
BestMatch(scores, i) ==
    IF i = 0 THEN [best_score |-> 0, best_match |-> NoIntent]
    ELSE LET prev == BestMatch(scores, i - 1)
             tag  == intent_patterns[i]
         IN IF scores[tag] > prev.best_score
            THEN [best_score |-> scores[tag], best_match |-> tag]
            ELSE prev

\* final_score = max(score, token_score) (line 206), for every pattern
FinalScores(partial, token_set) ==
    [t \in DOMAIN partial |-> Max(partial[t], token_set[t])]

\* a Stage C that accepts a best score at the threshold
FuzzyIntentAcceptsThreshold(scores) ==
    LET best == BestMatch(scores, Len(intent_patterns))
    IN IF best.best_score >= FuzzyThreshold THEN best.best_match ELSE NoIntent

\* Stage C: the best match is used only above the similarity threshold
FuzzyIntent(scores) ==
    LET best == BestMatch(scores, Len(intent_patterns))
    IN IF best.best_score > FuzzyThreshold THEN best.best_match ELSE NoIntent

\* a classifier whose answer is taken at any confidence
ClassifierNeverRejects(result) == FALSE

\* Stage D: the classifier's answer is refused below the confidence floor
ClassifierRejects(result) == result.confidence < ConfidenceFloor

\* ------------------------------------------------------------ the catalogs

\* the department names of the catalog (the keys of courses.json), as the
\* values of dept_mapping spell them
CSE == <<"C","o","m","p","u","t","e","r"," ","S","c","i","e","n","c","e"," ","E","n","g","i","n","e","e","r","i","n","g"," ","(","C","S","E",")">>

ECE == <<"E","l","e","c","t","r","o","n","i","c","s"," ","&"," ","C","o","m","m","u","n","i","c","a","t","i","o","n"," ","(","E","C","E",")">>

MECH == <<"M","e","c","h","a","n","i","c","a","l"," ","E","n","g","i","n","e","e","r","i","n","g">>

CIVIL == <<"C","i","v","i","l"," ","E","n","g","i","n","e","e","r","i","n","g">>

EEE == <<"E","l","e","c","t","r","i","c","a","l"," ","&"," ","E","l","e","c","t","r","o","n","i","c","s"," ","(","E","E","E",")">>

IT == <<"I","n","f","o","r","m","a","t","i","o","n"," ","T","e","c","h","n","o","l","o","g","y"," ","(","I","T",")">>

MCA == <<"M","C","A"," ","(","M","a","s","t","e","r"," ","o","f"," ","C","o","m","p","u","t","e","r"," ","A","p","p","l","i","c","a","t","i","o","n","s",")">>

MBA == <<"M","B","A"," ","(","M","a","s","t","e","r"," ","o","f"," ","B","u","s","i","n","e","s","s"," ","A","d","m","i","n","i","s","t","r","a","t","i","o","n",")">>

\* list(self.courses.keys())
dept_names == <<CSE, ECE, MECH, CIVIL, EEE, IT, MCA, MBA>>

\* dept_mapping of _handle_courses, in the dict's insertion order
dept_mapping ==
  << [keyword |-> <<"c","s","e">>, full_name |-> CSE],
     [keyword |-> <<"c","o","m","p","u","t","e","r"," ","s","c","i","e","n","c","e">>, full_name |-> CSE],
     [keyword |-> <<"c","s">>, full_name |-> CSE],
     [keyword |-> <<"e","c","e">>, full_name |-> ECE],
     [keyword |-> <<"e","l","e","c","t","r","o","n","i","c","s">>, full_name |-> ECE],
     [keyword |-> <<"m","e","c","h","a","n","i","c","a","l">>, full_name |-> MECH],
     [keyword |-> <<"m","e","c","h">>, full_name |-> MECH],
     [keyword |-> <<"c","i","v","i","l">>, full_name |-> CIVIL],
     [keyword |-> <<"e","e","e">>, full_name |-> EEE],
     [keyword |-> <<"e","l","e","c","t","r","i","c","a","l">>, full_name |-> EEE],
     [keyword |-> <<"i","t">>, full_name |-> IT],
     [keyword |-> <<"i","n","f","o","r","m","a","t","i","o","n"," ","t","e","c","h","n","o","l","o","g","y">>, full_name |-> IT],
     [keyword |-> <<"m","c","a">>, full_name |-> MCA],
     [keyword |-> <<"m","b","a">>, full_name |-> MBA] >>

\* the faculty table (faculty.json): a principal record and the faculty list
has_principal == TRUE

faculty_names == << <<"D","r","."," ","R","a","o">>, <<"P","r","o","f","."," ","M","e","h","t","a">> >>

\* the keys that the code reads of a record of the faculty list, of the
\* principal record and of an upcoming event
faculty_fields == {"name", "designation", "dept"}

principal_fields == {"name", "qualifications", "email"}

event_fields == {"title", "date", "location"}

\* A knowledge base is given by the keys that each of its records holds: the
\* i-th record of the faculty list is the one of faculty_names[i].  This one
\* has every key in every record.
WellFormedKB ==
    [principal |-> principal_fields,
     faculty   |-> [i \in 1..Len(faculty_names) |-> faculty_fields],
     upcoming  |-> <<event_fields>>]

\* the knowledge bases of SpecKnowledge: each record holds all its keys or
\* lacks one of them, and the list of the upcoming events may be empty
KnowledgeBases ==
    { [principal |-> p, faculty |-> <<f1, f2>>, upcoming |-> u] :
        p \in {principal_fields, principal_fields \ {"email"}},
        f1 \in {faculty_fields} \cup {faculty_fields \ {k} : k \in faculty_fields},
        f2 \in {faculty_fields} \cup {faculty_fields \ {k} : k \in faculty_fields},
        u \in {<<>>} \cup {<<e>> : e \in {event_fields} \cup {event_fields \ {k} : k \in event_fields}} }

\* record.get(key, default): the stored value, for which the key stands, or the default
Get(record, key, default) == IF key \in record THEN key ELSE default

\* the intents whose catalog entry (intents.json) carries canned responses
canned_intents == {"greeting", "goodbye", "thanks"}

\* the semesters a department's record lists (courses.json)
SemestersOf(dept) == IF dept \in {MCA, MBA} THEN {<<"1">>, <<"2">>, <<"3">>, <<"4">>}
                     ELSE {<<"1">>, <<"2">>, <<"3">>, <<"4">>, <<"5">>, <<"6">>, <<"7">>, <<"8">>}


\* --------------------------------------------------------- extract_entities

SemesterNumerals == {<<"1">>, <<"2">>, <<"3">>, <<"4">>, <<"5">>, <<"6">>, <<"7">>, <<"8">>}

OrdinalSuffixes == {<<"s","t">>, <<"n","d">>, <<"r","d">>, <<"t","h">>}

\* the threshold of the department match
DeptThreshold == 60

\* \s*(\d+)\b after a word that ends before position k: the digits, or None
SemDigitsAfter(s, k) ==
    LET j == RunEnd(s, k, Whitespace)
        e == RunEnd(s, j, Digits)
    IN IF e > j /\ WordBoundary(s, e) THEN SubSeq(s, j, e - 1) ELSE None

\* the match of \b(?:semester|sem)\s*(\d+)\b that starts at position i: group 1, or None
SemPatternAt(s, i) ==
    LET long  == <<"s","e","m","e","s","t","e","r">>
        short == <<"s","e","m">>
    IN IF ~WordBoundary(s, i) THEN None
       ELSE IF MatchAt(long, s, i) /\ SemDigitsAfter(s, i + Len(long)) # None
            THEN SemDigitsAfter(s, i + Len(long))
       ELSE IF MatchAt(short, s, i) THEN SemDigitsAfter(s, i + Len(short))
       ELSE None

\* re.search(r'\b(?:semester|sem)\s*(\d+)\b', s): group 1 of the leftmost match, or None
SemPattern(s) ==
    IF \E i \in 1..Len(s) : SemPatternAt(s, i) # None
    THEN SemPatternAt(s, CHOOSE i \in 1..Len(s) :
                            /\ SemPatternAt(s, i) # None
                            /\ \A j \in 1..(i - 1) : SemPatternAt(s, j) = None)
    ELSE None

\* \b([1-8])(?:st|nd|rd|th)?\b matches at position i
NumPatternAt(s, i) ==
    /\ WordBoundary(s, i)
    /\ <<s[i]>> \in SemesterNumerals
    /\ \/ (\E suf \in OrdinalSuffixes : MatchAt(suf, s, i + 1)) /\ WordBoundary(s, i + 3)
       \/ WordBoundary(s, i + 1)

\* re.search(r'\b([1-8])(?:st|nd|rd|th)?\b', s): group 1 of the leftmost match, or None
NumPattern(s) ==
    IF \E i \in 1..Len(s) : NumPatternAt(s, i)
    THEN LET first == CHOOSE i \in 1..Len(s) :
                        NumPatternAt(s, i) /\ \A j \in 1..(i - 1) : ~NumPatternAt(s, j)
         IN <<s[first]>>
    ELSE None

\* the semester slot: the three patterns, the first that applies wins
ExtractSemester(text_lower) ==
    IF SemPattern(text_lower) # None THEN SemPattern(text_lower)
    ELSE IF IsBareInteger(text_lower)
         THEN (IF Strip(text_lower) \in SemesterNumerals THEN Strip(text_lower) ELSE None)
    ELSE NumPattern(text_lower)

\* a < b for Python strings
RECURSIVE StrLess(_, _)
StrLess(a, b) ==
    IF b = <<>> THEN FALSE
    ELSE IF a = <<>> THEN TRUE
    ELSE IF Head(a) = Head(b) THEN StrLess(Tail(a), Tail(b))
    ELSE Ord(Head(a)) < Ord(Head(b))

\* insert token t into the sorted list of tokens (after its equals: sorted() is stable)
RECURSIVE InsertSorted(_, _)
InsertSorted(t, sorted) ==
    IF sorted = <<>> THEN <<t>>
    ELSE IF StrLess(t, Head(sorted)) THEN <<t>> \o sorted
    ELSE <<Head(sorted)>> \o InsertSorted(t, Tail(sorted))

RECURSIVE SortTokens(_)
SortTokens(tokens) ==
    IF tokens = <<>> THEN <<>>
    ELSE InsertSorted(tokens[Len(tokens)], SortTokens(SubSeq(tokens, 1, Len(tokens) - 1)))

\* ' '.join(tokens)
RECURSIVE JoinTokens(_)
JoinTokens(tokens) ==
    IF tokens = <<>> THEN <<>>
    ELSE IF Len(tokens) = 1 THEN tokens[1]
    ELSE tokens[1] \o <<" ">> \o JoinTokens(Tail(tokens))

MaxOf(S) == CHOOSE x \in S : \A y \in S : y <= x

\* one row of the longest-common-subsequence table: prev is the row of the
\* characters before c (position p holds the entry of the first p - 1
\* characters of b); c is left out, or matched with an equal character b[k]
LcsRow(prev, c, b) ==
    LET row == [p \in 1..(Len(b) + 1) |->
                  MaxOf({prev[p]} \cup {prev[k] + 1 : k \in {k \in 1..(p - 1) : b[k] = c}})]
    IN SubSeq(row, 1, Len(b) + 1)

\* the rows of the table from the one of a[i] on, prev being the row before it
RECURSIVE LcsRows(_, _, _, _)
LcsRows(a, b, i, prev) ==
    IF i > Len(a) THEN prev
    ELSE LET row == LcsRow(prev, a[i], b)
         IN IF Len(row) > 0 THEN LcsRows(a, b, i + 1, row) ELSE row

\* the length of a longest common subsequence of a and b
Lcs(a, b) == LcsRows(a, b, 1, [p \in 1..(Len(b) + 1) |-> 0])[Len(b) + 1]

\* fuzz.token_sort_ratio(a, b) as the fraction num/den of 100: the Indel
\* similarity 2*LCS/(len + len) of the two strings with their tokens sorted
TokenSortRatio(a, b) ==
    LET sa == JoinTokens(SortTokens(Split(a)))
        sb == JoinTokens(SortTokens(Split(b)))
    IN IF Len(sa) + Len(sb) = 0 THEN [num |-> 100, den |-> 1]
       ELSE [num |-> 200 * Lcs(sa, sb), den |-> Len(sa) + Len(sb)]

ScoreGreater(x, y) == x.num * y.den > y.num * x.den

\* [d.lower() for d in dept_names]
dept_names_lower == [i \in 1..Len(dept_names) |-> Lower(dept_names[i])]

\* process.extractOne over the first i choices: the index and the score of the
\* best choice so far (the first of the best ones)
RECURSIVE BestDept(_, _)
BestDept(text_lower, i) ==
    LET score == TokenSortRatio(text_lower, dept_names_lower[i])
    IN IF i = 1 THEN [idx |-> 1, score |-> score]
       ELSE LET prev == BestDept(text_lower, i - 1)
            IN IF ScoreGreater(score, prev.score) THEN [idx |-> i, score |-> score] ELSE prev

\* the department slot: the best fuzzy match, if it scores above the threshold
ExtractDepartment(text_lower) ==
    LET match == BestDept(text_lower, Len(dept_names))
    IN IF match.score.num > DeptThreshold * match.score.den
       THEN dept_names[match.idx] ELSE None

\* the faculty slot: 'principal', else the first record one of whose name parts
\* occurs in the input
FacultyHit(name, text_lower) ==
    \E k \in 1..Len(Split(Lower(name))) : Contains(Split(Lower(name))[k], text_lower)

ExtractFaculty(text_lower) ==
    IF Contains(<<"p","r","i","n","c","i","p","a","l">>, text_lower) /\ has_principal
    THEN <<"p","r","i","n","c","i","p","a","l">>
    ELSE IF \E i \in 1..Len(faculty_names) : FacultyHit(faculty_names[i], text_lower)
    THEN faculty_names[CHOOSE i \in 1..Len(faculty_names) :
                          /\ FacultyHit(faculty_names[i], text_lower)
                          /\ \A j \in 1..(i - 1) : ~FacultyHit(faculty_names[j], text_lower)]
    ELSE None

extract_entities(text) ==
    LET text_lower == Lower(text)
    IN [department   |-> ExtractDepartment(text_lower),
        semester     |-> ExtractSemester(text_lower),
        faculty_name |-> ExtractFaculty(text_lower)]

\* the 'principal' branch of the faculty slot is taken
PrincipalMentioned(text_lower) ==
    Contains(<<"p","r","i","n","c","i","p","a","l">>, text_lower) /\ has_principal

\* the records of the faculty list a part of whose name occurs in the input
FacultyHits(text_lower) ==
    {i \in 1..Len(faculty_names) : FacultyHit(faculty_names[i], text_lower)}

\* a scan that raises when no record of the faculty list is hit
ExtractRaisesOnMiss(principal, hits, base) ==
    ~principal /\ hits = {}

\* f['name'] raises KeyError in the scan of extract_entities: the scan, which
\* stops at the first hit, comes to a record that holds no name
ExtractRaises(principal, hits, base) ==
    /\ ~principal
    /\ \E i \in 1..Len(base.faculty) :
         /\ "name" \notin base.faculty[i]
         /\ \A j \in 1..(i - 1) : j \notin hits

\* the first entry of dept_mapping whose keyword occurs in text: its full name, or None
MappedDept(text) ==
    IF \E k \in 1..Len(dept_mapping) : Contains(dept_mapping[k].keyword, text)
    THEN dept_mapping[CHOOSE k \in 1..Len(dept_mapping) :
                         /\ Contains(dept_mapping[k].keyword, text)
                         /\ \A j \in 1..(k - 1) : ~Contains(dept_mapping[j].keyword, text)].full_name
    ELSE None

\* ------------------------------------------------- preprocess.py: clean_text

\* the end (exclusive) of the run of non-whitespace characters that holds position i
RECURSIVE NonSpaceEnd(_, _)
NonSpaceEnd(s, i) == IF i <= Len(s) /\ s[i] \notin Whitespace THEN NonSpaceEnd(s, i + 1) ELSE i

\* http\S+|www\S+ matches at position i: the prefix and one more character
\* that is not whitespace
UrlAt(s, i) ==
    \/ MatchAt(<<"h","t","t","p">>, s, i) /\ i + 4 <= Len(s) /\ s[i + 4] \notin Whitespace
    \/ MatchAt(<<"w","w","w">>, s, i) /\ i + 3 <= Len(s) /\ s[i + 3] \notin Whitespace

\* re.sub(r'http\S+|www\S+', '', s), from position i on: a match runs to the
\* end of the run of non-whitespace characters
RECURSIVE RemoveUrlsFrom(_, _)
RemoveUrlsFrom(s, i) ==
    IF i > Len(s) THEN <<>>
    ELSE IF UrlAt(s, i) THEN RemoveUrlsFrom(s, NonSpaceEnd(s, i))
    ELSE <<s[i]>> \o RemoveUrlsFrom(s, i + 1)

\* \S+@\S+ matches at position i: an '@' later in the run, with a character
\* of the run after it
EmailAt(s, i) ==
    /\ s[i] \notin Whitespace
    /\ \E j \in (i + 1)..(NonSpaceEnd(s, i) - 2) : s[j] = "@"

\* re.sub(r'\S+@\S+', '', s), from position i on
RECURSIVE RemoveEmailsFrom(_, _)
RemoveEmailsFrom(s, i) ==
    IF i > Len(s) THEN <<>>
    ELSE IF EmailAt(s, i) THEN RemoveEmailsFrom(s, NonSpaceEnd(s, i))
    ELSE <<s[i]>> \o RemoveEmailsFrom(s, i + 1)

\* the characters that [^a-z0-9\s\?\.] leaves
KeptChars == {LowerAlpha[i] : i \in 1..26} \cup Digits \cup Whitespace \cup {"?", "."}

\* clean_text: lower case, URLs and e-mail addresses removed, then the
\* characters outside KeptChars, then the whitespace collapsed
clean_text(text) ==
    JoinTokens(Split(SelectSeq(RemoveEmailsFrom(RemoveUrlsFrom(Lower(text), 1), 1),
                               LAMBDA c : c \in KeptChars)))

\* the pieces of which the texts given to clean_text are made
Pieces ==
    { <<"h","t","t","p">>, <<"h","t">>, <<"t","p">>, <<"w","w","w">>, <<"w">>,
      <<"-">>, <<"@">>, <<" ">>, <<"a">>, <<"B">>, <<"?">> }

\* the texts made of up to n pieces
RECURSIVE TextsOf(_)
TextsOf(n) ==
    IF n = 0 THEN {<<>>}
    ELSE TextsOf(n - 1) \cup {x \o piece : x \in TextsOf(n - 1), piece \in Pieces}

\* ------------------------------------------------------------ the inputs

\* the inputs of the specification Spec: every department keyword on its own, and
SampleInputs ==
    { <<"l","i","b","r","a","r","y">>,
      <<"f","a","c","i","l","i","t","i","e","s">>,
      <<"h","o","s","t","e","l"," ","f","o","o","d">>,
      <<"d","e","p","a","r","t","m","e","n","t">>,
      <<"c","o","m","p","u","t","e","r"," ","l","a","b">>,
      <<"h","o","w"," ","t","o"," ","a","p","p","l","y">>,
      <<"3">>,
      <<"1","2">>,
      <<"s","e","m","e","s","t","e","r"," ","1","2">>,
      <<"w","h","a","t","'","s"," ","t","h","e"," ","w","e","a","t","h","e","r"," ","t","o","d","a","y">>,
      <<"s","h","o","w"," ","a","l","l"," ","c","o","u","r","s","e","s">>,
      <<"c","i","v","l"," ","e","n","g","i","n","e","e","r","i","n","g">>,
      <<"w","h","e","r","e"," ","i","s"," ","t","h","e"," ","l","i","b","r","a","r","y">>,
      <<"C","S","E">>,
      <<"2","n","d"," ","s","e","m">> }

Inputs == {dept_keywords[k] : k \in 1..Len(dept_keywords)} \cup SampleInputs

\* the inputs of the dialogues of SpecDialogue
DialogueInputs ==
    { <<"c","s","e">>,
      <<"3">>,
      <<"s","h","o","w"," ","a","l","l"," ","c","o","u","r","s","e","s">>,
      <<"e","c","e">>,
      <<"c","i","v","l"," ","e","n","g","i","n","e","e","r","i","n","g">>,
      <<"9">>,
      <<"h","e","l","l","o">>,
      <<"f","e","e","s"," ","f","o","r"," ","m","b","a">> }

\* the inputs of the long dialogues of SpecLong
LongInputs ==
    { <<"c","s","e">>,
      <<"3">>,
      <<"a","l","l"," ","p","r","o","g","r","a","m","s">> }

\* the inputs of SpecKnowledge: questions about the events, the principal and
\* the faculty, one of them by name, and a department
KnowledgeInputs ==
    { <<"e","v","e","n","t","s">>,
      <<"w","h","o"," ","i","s"," ","t","h","e"," ","p","r","i","n","c","i","p","a","l">>,
      <<"m","e","h","t","a">>,
      <<"f","a","c","u","l","t","y"," ","l","i","s","t">>,
      <<"c","s","e">> }

\* the inputs of the long dialogues of SpecTurns, in which clear_context is called too
TurnInputs ==
    { <<"c","s","e">>,
      <<"l","i","b","r","a","r","y">> }

\* A request to /api/chat carries a JSON object: its 'message' is a string,
\* or is absent, or is null.
TextPayload(message) == [kind |-> "text", message |-> message]

AbsentPayload == [kind |-> "absent", message |-> <<>>]

NullPayload == [kind |-> "null", message |-> <<>>]

\* the payloads of the requests of SpecRoute
RoutePayloads ==
    { TextPayload(<<>>),
      TextPayload(<<" "," ">>),
      TextPayload(<<"c","s","e">>),
      TextPayload(<<" ","3"," ">>),
      TextPayload(<<"e","v","e","n","t","s">>),
      TextPayload(<<"w","h","a","t","'","s"," ","t","h","e"," ","w","e","a","t","h","e","r"," ","t","o","d","a","y">>),
      AbsentPayload,
      NullPayload }

\* the payloads of the requests of SpecShared: utterances whose intent the
\* forced override decides, so that no collaborator is asked
SharedPayloads ==
    { TextPayload(<<"c","s","e">>),
      TextPayload(<<"e","c","e">>),
      TextPayload(<<"3">>) }

\* the clients of the process, each holding a conversation of its own
Clients == {"A", "B"}

\* the threads in which the server runs chat(), one request in each at a time
Threads == {1, 2}

\* the texts that the route hands, or would hand, to get_response
RouteTexts == {Strip(p.message) : p \in RoutePayloads \cup SharedPayloads}

\* What get_response and the handlers compute from the text of an input alone:
\* the local variables of get_response (lines 107-125), the outcome of the scan
\* of exact_matches, and the entities
Analysis(user_input) ==
    LET text_lower == Lower(user_input)
    IN [text_lower    |-> text_lower,
        reset         |-> IsResetQuery(text_lower),
        is_dept_query |-> IsDeptQuery(text_lower),
        is_sem_query  |-> IsSemQuery(text_lower),
        bare_integer  |-> IsBareInteger(user_input),
        tokens        |-> Len(Split(text_lower)),
        exact         |-> ExactIntent(text_lower),
        entities      |-> extract_entities(user_input),
        principal     |-> PrincipalMentioned(text_lower),
        faculty_hits  |-> FacultyHits(text_lower)]

\* the analysis of every input of the model, computed once
Analysed == [u \in Inputs \cup DialogueInputs \cup LongInputs \cup RouteTexts \cup KnowledgeInputs |-> Analysis(u)] @@ <<>>

\* the department that dept_mapping gives for every input of the model
MappedDeptOf == [u \in Inputs \cup DialogueInputs \cup LongInputs \cup RouteTexts \cup KnowledgeInputs |-> MappedDept(Lower(u))] @@ <<>>

NoEntities == [department |-> None, semester |-> None, faculty_name |-> None]

\* ------------------------------------------------- get_response: the cascade

\* is_sem_query after the scan of the context: a bare integer with a 'courses'
\* turn in the context sets it too
IsSemQueryIn(a, ctx) ==
    \/ a.is_sem_query
    \/ (a.bare_integer /\ ctx # <<>> /\ HasCoursesTurn(ctx))

\* an override that the semester keywords and the bare integers fire, the
\* department keywords not
ForcedOverrideSemOnly(a, ctx) ==
    /\ IsSemQueryIn(a, ctx)
    /\ a.tokens <= ShortQueryTokens

\* Stage A: the forced override to 'courses'
ForcedOverride(a, ctx) ==
    /\ a.is_dept_query \/ IsSemQueryIn(a, ctx)
    /\ a.tokens <= ShortQueryTokens

\* a cascade in which the similarity scorer is asked before the exact table
CascadeFuzzyFirst(a, ctx, scores, result) ==
    IF ForcedOverride(a, ctx)
    THEN [intent_tag |-> "courses", stage |-> "A", stages |-> {"A"}, fallback |-> FALSE]
    ELSE IF FuzzyIntent(scores) # NoIntent
    THEN [intent_tag |-> FuzzyIntent(scores), stage |-> "C", stages |-> {"A", "C"}, fallback |-> FALSE]
    ELSE IF a.exact # NoIntent
    THEN [intent_tag |-> a.exact, stage |-> "B", stages |-> {"A", "B", "C"}, fallback |-> FALSE]
    ELSE [intent_tag |-> result.tag, stage |-> "D", stages |-> {"A", "B", "C", "D"},
          fallback |-> ClassifierRejects(result)]

\* The cascade of get_response on the analysis a of the input.  scores and
\* result are the answers of the similarity scorer and of the trained
\* classifier for this input; stages is the set of stages that were
\* consulted, stage the one that chose the intent.
Cascade(a, ctx, scores, result) ==
    IF ForcedOverride(a, ctx)
    THEN [intent_tag |-> "courses", stage |-> "A", stages |-> {"A"}, fallback |-> FALSE]
    ELSE IF a.exact # NoIntent
    THEN [intent_tag |-> a.exact, stage |-> "B", stages |-> {"A", "B"}, fallback |-> FALSE]
    ELSE IF FuzzyIntent(scores) # NoIntent
    THEN [intent_tag |-> FuzzyIntent(scores), stage |-> "C", stages |-> {"A", "B", "C"}, fallback |-> FALSE]
    ELSE [intent_tag |-> result.tag, stage |-> "D", stages |-> {"A", "B", "C", "D"},
          fallback |-> ClassifierRejects(result)]

\* ----------------------------------------------------------- _handle_courses

\* the loop over reversed(self.context[:-1]), from turn i downwards: the
\* department of the most recent 'courses' turn that yields one, or None
RECURSIVE PrevCoursesDept(_, _)
PrevCoursesDept(ctx, i) ==
    IF i = 0 THEN None
    ELSE IF ctx[i].intent # "courses" THEN PrevCoursesDept(ctx, i - 1)
    ELSE IF ctx[i].entities.department # None THEN ctx[i].entities.department
    ELSE IF MappedDeptOf[ctx[i].input] # None THEN MappedDeptOf[ctx[i].input]
    ELSE PrevCoursesDept(ctx, i - 1)

\* the programs of the catalog whose name holds 'MCA' or 'MBA' (pg = TRUE), or the others
RECURSIVE Programs(_, _)
Programs(names, pg) ==
    IF names = <<>> THEN <<>>
    ELSE LET isPg == Contains(<<"M","C","A">>, Head(names)) \/ Contains(<<"M","B","A">>, Head(names))
         IN (IF isPg = pg THEN <<Head(names)>> ELSE <<>>) \o Programs(Tail(names), pg)

\* the reply of _handle_courses for a resolved department
CoursesReply(dept, sem) ==
    IF dept = None
    THEN [kind |-> "program_listing", ug |-> Programs(dept_names, FALSE), pg |-> Programs(dept_names, TRUE)]
    ELSE IF ~(\E i \in 1..Len(dept_names) : dept_names[i] = dept)
    THEN [kind |-> "unknown_department", dept |-> dept]
    ELSE IF sem # None /\ sem \in SemestersOf(dept)
    THEN [kind |-> "semester_listing", dept |-> dept, sem |-> sem]
    ELSE [kind |-> "department_summary", dept |-> dept]

\* a resolution that prefers the remembered department to the one of the entities
ResolveDeptStickyFirst(entities, ctx, sticky, mapped, prev) ==
    IF mapped # None THEN [dept |-> mapped, sticky |-> mapped]
    ELSE IF sticky # None THEN [dept |-> sticky, sticky |-> sticky]
    ELSE IF entities.department # None THEN [dept |-> entities.department, sticky |-> sticky]
    ELSE IF Len(ctx) > 1 /\ prev # None THEN [dept |-> prev, sticky |-> prev]
    ELSE [dept |-> None, sticky |-> sticky]

\* a resolution that knows the current input only: neither the remembered
\* department nor the earlier turns are consulted
ResolveDeptCurrentOnly(entities, ctx, sticky, mapped, prev) ==
    IF mapped # None THEN [dept |-> mapped, sticky |-> mapped]
    ELSE IF entities.department # None THEN [dept |-> entities.department, sticky |-> sticky]
    ELSE [dept |-> None, sticky |-> sticky]

\* The department resolution of _handle_courses.  ctx is the context with the
\* current turn already appended, sticky the remembered department at entry,
\* mapped the department dept_mapping gives for the input of the last turn of
\* ctx, prev the one the earlier 'courses' turns give.  Yields the effective
\* department and the remembered department at exit.
ResolveDept(entities, ctx, sticky, mapped, prev) ==
    IF mapped # None THEN [dept |-> mapped, sticky |-> mapped]
    ELSE IF entities.department # None THEN [dept |-> entities.department, sticky |-> sticky]
    ELSE IF sticky # None THEN [dept |-> sticky, sticky |-> sticky]
    ELSE IF Len(ctx) > 1 /\ prev # None THEN [dept |-> prev, sticky |-> prev]
    ELSE [dept |-> None, sticky |-> sticky]

handle_courses(entities, ctx, sticky) ==
    CHOOSE h \in {[dept |-> r.dept, sticky |-> r.sticky, reply |-> CoursesReply(r.dept, entities.semester)] :
                     r \in {ResolveDept(entities, ctx, sticky,
                                        IF ctx # <<>> THEN MappedDeptOf[ctx[Len(ctx)].input] ELSE None,
                                        IF ctx # <<>> THEN PrevCoursesDept(ctx, Len(ctx) - 1) ELSE None)}} : TRUE

\* ------------------------------------------- _handle_faculty, _handle_events

\* the reply of a handler that raised KeyError
Raised == [kind |-> "raised", error |-> "KeyError"]

\* the record at which the scan for faculty_name ends (lines 573-577): the
\* first one that holds no name, or whose name is faculty_name; 0 when the
\* scan runs through
FacultyScanEnd(faculty_name, base) ==
    IF \E i \in 1..Len(base.faculty) : "name" \notin base.faculty[i] \/ faculty_names[i] = faculty_name
    THEN CHOOSE i \in 1..Len(base.faculty) :
           /\ "name" \notin base.faculty[i] \/ faculty_names[i] = faculty_name
           /\ \A j \in 1..(i - 1) : "name" \in base.faculty[j] /\ faculty_names[j] # faculty_name
    ELSE 0

\* the list of the first ten faculty members (lines 580-584)
FacultyListing(base) ==
    IF \A i \in 1..Len(base.faculty) : i <= 10 => {"name", "designation"} \subseteq base.faculty[i]
    THEN [kind |-> "faculty_listing",
          lines |-> [i \in 1..(IF Len(base.faculty) < 10 THEN Len(base.faculty) ELSE 10) |->
                       <<faculty_names[i], "designation">>]]
    ELSE Raised

handle_faculty(entities, base) ==
    IF entities.faculty_name = <<"p","r","i","n","c","i","p","a","l">> /\ has_principal
    THEN [kind           |-> "principal",
          name           |-> Get(base.principal, "name", "N/A"),
          qualifications |-> Get(base.principal, "qualifications", "N/A"),
          email          |-> Get(base.principal, "email", "N/A")]
    ELSE IF entities.faculty_name # None /\ FacultyScanEnd(entities.faculty_name, base) # 0
    THEN (IF faculty_fields \subseteq base.faculty[FacultyScanEnd(entities.faculty_name, base)]
          THEN [kind |-> "faculty_record", name |-> entities.faculty_name,
                designation |-> "designation", dept |-> "dept"]
          ELSE Raised)
    ELSE FacultyListing(base)

handle_events(base) ==
    IF base.upcoming = <<>> THEN [kind |-> "no_events"]
    ELSE IF \A i \in 1..Len(base.upcoming) : {"title", "date"} \subseteq base.upcoming[i]
    THEN [kind |-> "events_listing",
          lines |-> [i \in 1..Len(base.upcoming) |->
                       <<"title", "date", Get(base.upcoming[i], "location", "TBA")>>]]
    ELSE Raised

\* ------------------------------------------------------------- get_response

max_context == 10

\* the three strings of _fallback_response
fallback_responses ==
  << "I'm not sure I understand. Could you rephrase that?",
     "Sorry, I didn't quite get that. I can help with: College timings, Courses and fees, Admissions, Faculty and departments, Events",
     "I'm here to help with college information. Try asking about courses, admissions, faculty, or events!" >>

\* the intents _generate_intent_response has a branch for
handled_intents ==
  { "college_timings", "departments", "facilities", "library", "hostel", "transport",
    "contact", "courses", "admission", "fees", "scholarship", "placements", "internship",
    "faculty", "principal", "events", "sports", "clubs", "exams", "attendance", "canteen",
    "labs", "alumni" }

\* a context that, over capacity, keeps its oldest turns and drops the newest
EvictNewest(ctx) ==
    IF Len(ctx) > max_context THEN SubSeq(ctx, 1, max_context) ELSE ctx

\* a context that drops its oldest turn as soon as it is at capacity
EvictEarly(ctx) ==
    IF Len(ctx) >= max_context THEN SubSeq(ctx, 2, Len(ctx)) ELSE ctx

\* a context that, over capacity, keeps its newest turn alone
EvictAllButNewest(ctx) ==
    IF Len(ctx) > max_context THEN <<ctx[Len(ctx)]>> ELSE ctx

\* self.context = self.context[-self.max_context:] when the context is over capacity
Evict(ctx) ==
    IF Len(ctx) > max_context THEN SubSeq(ctx, Len(ctx) - max_context + 1, Len(ctx)) ELSE ctx

\* the entities of the turn: extract_entities, then a bare number after a
\* 'courses' turn is taken as the semester
TurnEntities(a, user_input, ctx) ==
    IF /\ a.entities.semester = None
       /\ a.entities.department = None
       /\ a.bare_integer
       /\ ctx # <<>>
       /\ HasCoursesTurn(ctx)
    THEN [a.entities EXCEPT !.semester = Strip(user_input)]
    ELSE a.entities

\* _generate_intent_response: the reply, the effective department of a
\* 'courses' reply, and the remembered department afterwards.  pick is the
\* draw of random.choice.
generate_intent_response(intent_tag, entities, ctx, sticky, pick, base) ==
    IF intent_tag \in canned_intents
    THEN [reply |-> [kind |-> "canned", intent |-> intent_tag], dept |-> None, sticky |-> sticky]
    ELSE IF intent_tag = "courses" THEN handle_courses(entities, ctx, sticky)
    ELSE IF intent_tag \in {"faculty", "principal"}
    THEN [reply |-> handle_faculty(entities, base), dept |-> None, sticky |-> sticky]
    ELSE IF intent_tag = "events"
    THEN [reply |-> handle_events(base), dept |-> None, sticky |-> sticky]
    ELSE IF intent_tag \in handled_intents
    THEN [reply |-> [kind |-> "knowledge", intent |-> intent_tag], dept |-> None, sticky |-> sticky]
    ELSE [reply |-> [kind |-> "fallback", text |-> fallback_responses[pick]], dept |-> None, sticky |-> sticky]

\* a head of get_response that forgets the remembered department on every
\* call, leaving it to be found again in the turns of the context
AfterResetForgetful(a, sticky) == None

\* the remembered department after the reset test at the head of get_response
AfterReset(a, sticky) == IF a.reset THEN None ELSE sticky

\* the turn that get_response appends
Turn(user_input, intent_tag, entities) ==
    [input |-> user_input, intent |-> intent_tag, entities |-> entities]

\* One call of get_response on user_input, whose analysis is a.  Each
\* intermediate value of the method is bound once, in the order in which the
\* method computes it.  The outcome of the call is kept in last, the turns
\* ever appended in log.
GetResponse(user_input, a, scores, result, pick) ==
    \E reset \in {AfterReset(a, current_department)} :
    \E c \in {Cascade(a, context, scores, result)} :
    \E call \in {[input |-> user_input, intent_tag |-> c.intent_tag, stage |-> c.stage,
                  stages |-> c.stages, scores |-> scores, result |-> result]} :
      IF c.fallback
      THEN /\ context' = context
           /\ log' = log
           /\ current_department' = reset
           /\ last' = call @@ [resolved |-> FALSE, raised |-> FALSE, entities |-> NoEntities, dept |-> None,
                               reply |-> [kind |-> "fallback", text |-> fallback_responses[pick]]]
           /\ calls' = calls + 1
      ELSE IF ExtractRaises(a.principal, a.faculty_hits, kb)
      THEN /\ context' = context
           /\ log' = log
           /\ current_department' = reset
           /\ last' = call @@ [resolved |-> FALSE, raised |-> TRUE, entities |-> NoEntities, dept |-> None,
                               reply |-> Raised]
           /\ calls' = calls + 1
      ELSE \E entities \in {TurnEntities(a, user_input, context)} :
           \E turn \in {Turn(user_input, c.intent_tag, entities)} :
           \E appended \in {Evict(Append(context, turn))} :
           \E g \in {generate_intent_response(c.intent_tag, entities, appended, reset, pick, kb)} :
             /\ context' = appended
             /\ log' = Append(log, turn)
             /\ current_department' = g.sticky
             /\ last' = call @@ [resolved |-> TRUE, raised |-> (g.reply = Raised), entities |-> entities,
                                 dept |-> g.dept, reply |-> g.reply]
             /\ calls' = calls + 1

\* clear_context: the context is emptied, the remembered department is kept
ClearContext ==
    /\ context' = <<>>
    /\ UNCHANGED <<current_department, last, calls, log, kb, startup, probe, served, threads>>

\* ------------------------------------------------------------ the bounds

\* the number of calls of get_response in a behaviour of Spec, SpecDialogue, SpecLong
MaxCalls == 2

MaxDialogueCalls == 3

MaxLongCalls == 11

MaxTurnCalls == 11

\* the number of calls of get_response in a behaviour of SpecKnowledge
MaxKnowledgeCalls == 2

\* the number of requests in a behaviour of SpecShared
MaxSharedRequests == 3

\* the number of requests in a behaviour of SpecThreads
MaxThreadRequests == 2

\* the number of calls of get_response in a behaviour of SpecStartup
MaxStartupCalls == 3

\* the number of pieces of a text given to clean_text, and the number of
\* times clean_text is applied in a behaviour of SpecClean
MaxPieces == 4

MaxApplications == 2

\* the number of calls of get_response in a behaviour of SpecScores
MaxScoredCalls == 1

\* the number of requests in a behaviour of SpecRoute
MaxRequests == 2

\* the answers of the similarity scorer: the scores of two of the patterns
\* range over the values around the threshold, the others score 0
ScoreValues == {60, 61, 100}

NoScores == [t \in {intent_patterns[i] : i \in 1..Len(intent_patterns)} |-> 0]

\* the answers of fuzz.partial_ratio and of fuzz.token_set_ratio
PartialScores ==
    {[NoScores EXCEPT !["greeting"] = x, !["fees"] = y] : x \in {0, 100}, y \in ScoreValues}

TokenSetScores == {[NoScores EXCEPT !["fees"] = z] : z \in {0, 100}}

FuzzyScores ==
    {FinalScores(partial, token_set) : partial \in PartialScores, token_set \in TokenSetScores}

\* the answers of the two scorers in SpecScores: three patterns, the first,
\* one in the middle and the last of intent_patterns, are scored around the threshold
ScorePoints == {0, 60, 61}

ScoreTables ==
    {[NoScores EXCEPT !["greeting"] = x, !["fees"] = y, !["alumni"] = z] :
        x \in ScorePoints, y \in ScorePoints, z \in ScorePoints}

\* the answers of the classifier: a tag and a confidence in hundredths
NoResult == [tag |-> NoIntent, confidence |-> 0]

ClassifierResults ==
    {[tag |-> t, confidence |-> p] : t \in {"greeting", "fees"}, p \in {24, 25}}

\* the scorer is asked when neither the override nor the exact table chose
ConsultsFuzzy(a, ctx) == ~ForcedOverride(a, ctx) /\ a.exact = NoIntent

\* what the scorer, the classifier and random.choice may answer in a call
ScoresDrawn(a, ctx, fuzzy) == IF ConsultsFuzzy(a, ctx) THEN fuzzy ELSE {NoScores}

ResultsDrawn(a, ctx, scores, classifier) ==
    IF ConsultsFuzzy(a, ctx) /\ FuzzyIntent(scores) = NoIntent
    THEN classifier ELSE {NoResult}

PicksDrawn(result) ==
    IF result # NoResult /\ ClassifierRejects(result) THEN 1..Len(fallback_responses) ELSE {1}

\* the outcome of a call of get_response without its result: the input and
\* what the cascade chose
NoCall ==
    [input |-> <<>>, intent_tag |-> NoIntent, stage |-> "none", stages |-> {},
     scores |-> NoScores, result |-> NoResult]

\* the locals of chat() and get_response in a thread that serves no request
IdleThread ==
    [pc |-> "idle", client |-> "", payload |-> AbsentPayload, call |-> NoCall,
     entities |-> NoEntities, pick |-> 1, dept |-> None, reply |-> [kind |-> "none"]]

\* no pure function has been applied
NoProbe == [fn |-> "none"]

\* the answers that the scorer and the classifier may give
Collaborators == [fuzzy |-> FuzzyScores, classifier |-> ClassifierResults]

\* get_response(user_input), the collaborators answering as oracle allows
Ask(user_input, oracle) ==
    \E a \in {Analysed[user_input]} :
      \E scores \in ScoresDrawn(a, context, oracle.fuzzy) :
        \E result \in ResultsDrawn(a, context, scores, oracle.classifier) :
          \E pick \in PicksDrawn(result) :
            GetResponse(user_input, a, scores, result, pick)

\* the answers of the collaborators in SpecKnowledge: the scorer finds
\* 'faculty' or nothing, the classifier 'principal' or, below the floor, 'events'
KnowledgeCollaborators ==
    [fuzzy      |-> {NoScores, [NoScores EXCEPT !["faculty"] = 100]},
     classifier |-> {[tag |-> "principal", confidence |-> 90], [tag |-> "events", confidence |-> 24]}]

\* a call of get_response with an input of the set inputs
Call(inputs) ==
    \E user_input \in inputs :
      /\ Ask(user_input, Collaborators)
      /\ UNCHANGED <<kb, startup, probe, served, threads>>

\* ---------------------------------------------------- app.py: /api/chat

\* the compound scores of the sentiment analyzer, in hundredths, around the
\* two thresholds of the route
Sentiments == {-51, -50, 0, 50, 51}

\* the tone adjustment of the route (lines 85-88)
TonePrefix(sentiment) ==
    IF sentiment < -50 THEN "I can see you're upset. "
    ELSE IF sentiment > 50 THEN "Glad to hear that! "
    ELSE ""

\* a route that hands every message to get_response
IsEmptyMessageNever(msg) == FALSE

\* `not msg` (line 70)
IsEmptyMessage(msg) == msg = <<>>

\* the answer of the route to a request, kept with the client who sent it
Exchange(client, payload, status, body) ==
    [client |-> client, payload |-> payload, status |-> status, body |-> body]

\* chat(): one request to /api/chat.  A null message raises at .strip() and
\* is answered by the handler of line 99, as is an exception of get_response.
Chat(payloads, clients, sentiments, oracle) ==
    \E payload \in payloads : \E client \in clients :
      IF payload.kind = "null"
      THEN /\ served' = Append(served, Exchange(client, payload, 500, [error |-> "AttributeError"]))
           /\ UNCHANGED <<context, current_department, last, calls, log, kb, startup, probe, threads>>
      ELSE \E msg \in {Strip(payload.message)} :
             IF IsEmptyMessage(msg)
             THEN /\ served' = Append(served, Exchange(client, payload, 400, [error |-> "empty message"]))
                  /\ UNCHANGED <<context, current_department, last, calls, log, kb, startup, probe, threads>>
             ELSE \E sentiment \in sentiments :
                    /\ Ask(msg, oracle)
                    /\ served' = Append(served,
                           IF last'.raised
                           THEN Exchange(client, payload, 500, [error |-> last'.reply.error])
                           ELSE Exchange(client, payload, 200,
                                  [reply       |-> [prefix |-> TonePrefix(sentiment), text |-> last'.reply],
                                   sentiment   |-> sentiment,
                                   intent      |-> IF context' # <<>> THEN context'[Len(context')].intent ELSE "",
                                   context_len |-> Len(context')]))
                    /\ UNCHANGED <<kb, startup, probe, threads>>

\* -------------------------------------- /api/chat served by several threads
\* The server of app.run (line 146) answers each request in a thread of its
\* own, and neither chat() nor the Chatbot holds a lock: a request advances,
\* between the steps of the others, from each of these points to the next.

\* chat(), lines 68-71: the request is taken; an empty message is answered at once
Receive(t, payloads, clients) ==
    /\ threads[t].pc = "idle"
    /\ \E payload \in payloads : \E client \in clients :
         IF payload.kind = "null"
         THEN /\ served' = Append(served, Exchange(client, payload, 500, [error |-> "AttributeError"]))
              /\ UNCHANGED <<context, current_department, last, calls, log, kb, startup, probe, threads>>
         ELSE IF IsEmptyMessage(Strip(payload.message))
         THEN /\ served' = Append(served, Exchange(client, payload, 400, [error |-> "empty message"]))
              /\ UNCHANGED <<context, current_department, last, calls, log, kb, startup, probe, threads>>
         ELSE /\ threads' = [threads EXCEPT ![t] = [IdleThread EXCEPT !.pc = "received",
                                                       !.client = client, !.payload = payload]]
              /\ UNCHANGED <<context, current_department, last, calls, log, kb, startup, probe, served>>

\* get_response, lines 107-235: the reset, the cascade and the entities, read
\* from the context as it is now; at low confidence, or when the scan of the
\* faculty raises, the method is left here
Resolve(t, oracle) ==
    /\ threads[t].pc = "received"
    /\ \E msg \in {Strip(threads[t].payload.message)} :
       \E a \in {Analysed[msg]} :
       \E scores \in ScoresDrawn(a, context, oracle.fuzzy) :
       \E result \in ResultsDrawn(a, context, scores, oracle.classifier) :
       \E pick \in PicksDrawn(result) :
       \E c \in {Cascade(a, context, scores, result)} :
       \E call \in {[input |-> msg, intent_tag |-> c.intent_tag, stage |-> c.stage,
                     stages |-> c.stages, scores |-> scores, result |-> result]} :
         /\ current_department' = AfterReset(a, current_department)
         /\ IF c.fallback
            THEN /\ threads' = [threads EXCEPT ![t].pc = "returned", ![t].call = call,
                                   ![t].reply = [kind |-> "fallback", text |-> fallback_responses[pick]]]
                 /\ last' = call @@ [resolved |-> FALSE, raised |-> FALSE, entities |-> NoEntities,
                                     dept |-> None,
                                     reply |-> [kind |-> "fallback", text |-> fallback_responses[pick]]]
                 /\ calls' = calls + 1
            ELSE IF ExtractRaises(a.principal, a.faculty_hits, kb)
            THEN /\ threads' = [threads EXCEPT ![t].pc = "returned", ![t].call = call, ![t].reply = Raised]
                 /\ last' = call @@ [resolved |-> FALSE, raised |-> TRUE, entities |-> NoEntities,
                                     dept |-> None, reply |-> Raised]
                 /\ calls' = calls + 1
            ELSE /\ threads' = [threads EXCEPT ![t].pc = "resolved", ![t].call = call, ![t].pick = pick,
                                   ![t].entities = TurnEntities(a, msg, context)]
                 /\ UNCHANGED <<last, calls>>
         /\ UNCHANGED <<context, log, kb, startup, probe, served>>

\* get_response, lines 238-244: the turn is appended, the oldest one evicted
AppendTurn(t) ==
    /\ threads[t].pc = "resolved"
    /\ \E turn \in {Turn(threads[t].call.input, threads[t].call.intent_tag, threads[t].entities)} :
         /\ context' = Evict(Append(context, turn))
         /\ log' = Append(log, turn)
    /\ threads' = [threads EXCEPT ![t].pc = "appended"]
    /\ UNCHANGED <<current_department, last, calls, kb, startup, probe, served>>

\* get_response, lines 247-256: the reply is generated from the context and
\* the remembered department as they are now, and returned
Generate(t) ==
    /\ threads[t].pc = "appended"
    /\ \E g \in {generate_intent_response(threads[t].call.intent_tag, threads[t].entities, context,
                                           current_department, threads[t].pick, kb)} :
         /\ current_department' = g.sticky
         /\ threads' = [threads EXCEPT ![t].pc = "returned", ![t].dept = g.dept, ![t].reply = g.reply]
         /\ last' = threads[t].call @@ [resolved |-> TRUE, raised |-> (g.reply = Raised),
                                        entities |-> threads[t].entities, dept |-> g.dept, reply |-> g.reply]
         /\ calls' = calls + 1
    /\ UNCHANGED <<context, log, kb, startup, probe, served>>

\* chat(), lines 76-103: the intent is read from the last turn of the context
\* as it is now, the tone is set and the request is answered
Report(t, sentiments) ==
    /\ threads[t].pc = "returned"
    /\ \E sentiment \in sentiments :
         served' = Append(served,
            IF threads[t].reply = Raised
            THEN Exchange(threads[t].client, threads[t].payload, 500, [error |-> Raised.error])
            ELSE Exchange(threads[t].client, threads[t].payload, 200,
                   [reply       |-> [prefix |-> TonePrefix(sentiment), text |-> threads[t].reply],
                    sentiment   |-> sentiment,
                    intent      |-> IF context # <<>> THEN context[Len(context)].intent ELSE "",
                    context_len |-> Len(context)]))
    /\ threads' = [threads EXCEPT ![t] = IdleThread]
    /\ UNCHANGED <<context, current_department, last, calls, log, kb, startup, probe>>

\* the requests that the threads have taken and not yet answered
InFlight == {t \in Threads : threads[t].pc # "idle"}

\* ------------------------------------------------------ the specifications

\* ---------------------------------------------------------------- startup

\* the files that IntentClassifier.load_model reads, in the order in which it
\* reads them, and the data files that Chatbot.__init__ reads after them
model_artifacts == <<"model", "vectorizer", "tags", "intents">>

\* a file is there and loads, or is not there, or is there and does not load
ArtifactStates == {"ok", "missing", "corrupt"}

AllLoadable == [f \in {"model", "vectorizer", "tags", "intents", "data"} |-> "ok"]

\* the exception that reading the i-th artifact raises
ArtifactError(i, state) ==
    IF state = "missing" THEN "FileNotFoundError"
    ELSE IF model_artifacts[i] = "intents" THEN "JSONDecodeError"
    ELSE "UnpicklingError"

\* a load_model that only tests that the model file exists
LoadModelChecksModelOnly(artifacts) ==
    IF artifacts["model"] = "missing"
    THEN [loaded |-> FALSE, artifact |-> "model", error |-> "FileNotFoundError"]
    ELSE [loaded |-> TRUE, artifact |-> "", error |-> ""]

\* IntentClassifier.load_model: the first artifact that does not load raises
LoadModel(artifacts) ==
    IF \E i \in 1..Len(model_artifacts) : artifacts[model_artifacts[i]] # "ok"
    THEN CHOOSE r \in {[loaded |-> FALSE, artifact |-> model_artifacts[i],
                         error |-> ArtifactError(i, artifacts[model_artifacts[i]])] :
                          i \in {k \in 1..Len(model_artifacts) :
                                   /\ artifacts[model_artifacts[k]] # "ok"
                                   /\ \A j \in 1..(k - 1) : artifacts[model_artifacts[j]] = "ok"}} : TRUE
    ELSE [loaded |-> TRUE, artifact |-> "", error |-> ""]

\* the state of a Chatbot after Chatbot.__init__ has loaded the knowledge base
Loaded(base) ==
    /\ context = <<>>
    /\ current_department = None
    /\ calls = 0
    /\ log = <<>>
    /\ last = [input |-> <<>>, intent_tag |-> NoIntent, stage |-> "none", stages |-> {},
               scores |-> NoScores, result |-> NoResult, resolved |-> FALSE, raised |-> FALSE,
               entities |-> NoEntities,
               dept |-> None, reply |-> [kind |-> "none"]]
    /\ kb = base
    /\ served = <<>>
    /\ threads = [t \in Threads |-> IdleThread]

\* the process once its Chatbot is built
Running == startup = [artifacts |-> AllLoadable, instance |-> "live", artifact |-> "", error |-> ""]

Constructed(base) == Loaded(base) /\ Running /\ probe = NoProbe

Init == Constructed(WellFormedKB)

\* the process before it builds its Chatbot (app.py, line 50), over the files
\* that it may find
InitStartup ==
    /\ Loaded(WellFormedKB)
    /\ probe = NoProbe
    /\ \E artifacts \in [DOMAIN AllLoadable -> ArtifactStates] :
         /\ artifacts["data"] # "corrupt"
         /\ startup = [artifacts |-> artifacts, instance |-> "absent", artifact |-> "", error |-> ""]

\* Chatbot(): load_model (line 22), then the four data files (lines 23-26);
\* an exception of either leaves the constructor, and no instance is bound
Construct ==
    /\ startup.instance = "absent"
    /\ \E m \in {LoadModel(startup.artifacts)} :
         startup' = IF ~m.loaded
                    THEN [startup EXCEPT !.instance = "failed", !.artifact = m.artifact, !.error = m.error]
                    ELSE IF startup.artifacts["data"] # "ok"
                    THEN [startup EXCEPT !.instance = "failed", !.artifact = "data",
                                         !.error = "FileNotFoundError"]
                    ELSE [startup EXCEPT !.instance = "live"]
    /\ UNCHANGED <<context, current_department, last, calls, log, kb, served, threads, probe>>

\* the calls of get_response on the instance, once it exists
NextStartup ==
    \/ Construct
    \/ startup.instance = "live" /\ calls < MaxStartupCalls /\ Call(LongInputs)

SpecStartup == InitStartup /\ [][NextStartup]_vars

\* get_response on utterances that come to Stage C, the two scorers
\* answering as drawn at the start
InitScores ==
    /\ Loaded(WellFormedKB)
    /\ Running
    /\ \E partial \in ScoreTables : \E token_set \in ScoreTables :
         probe = [fn |-> "scores", partial |-> partial, token_set |-> token_set]

ScoredCall ==
    /\ probe.fn = "scores"
    /\ calls < MaxScoredCalls
    /\ \E user_input \in {<<"w","h","a","t","'","s"," ","t","h","e"," ","w","e","a","t","h","e","r"," ","t","o","d","a","y">>,
                           <<"m","e","h","t","a">>} :
         Ask(user_input, [fuzzy      |-> {FinalScores(probe.partial, probe.token_set)},
                          classifier |-> ClassifierResults])
    /\ UNCHANGED <<kb, served, threads, startup, probe>>

SpecScores == InitScores /\ [][ScoredCall]_vars

\* clean_text applied, and applied again to its own output, to the texts
\* made of up to MaxPieces pieces
InitClean ==
    /\ Loaded(WellFormedKB)
    /\ Running
    /\ \E text \in TextsOf(MaxPieces) : probe = [fn |-> "clean_text", input |-> text, outputs |-> <<>>]

Normalize ==
    /\ probe.fn = "clean_text"
    /\ Len(probe.outputs) < MaxApplications
    /\ probe' = [probe EXCEPT !.outputs =
                   Append(@, clean_text(IF @ = <<>> THEN probe.input ELSE @[Len(@)]))]
    /\ UNCHANGED <<context, current_department, last, calls, log, kb, served, threads, startup>>

SpecClean == InitClean /\ [][Normalize]_vars

Next ==
    \/ calls < MaxCalls /\ Call(Inputs)
    \/ ClearContext

Spec == Init /\ [][Next]_vars

NextDialogue == calls < MaxDialogueCalls /\ Call(DialogueInputs)

SpecDialogue == Init /\ [][NextDialogue]_vars

NextLong == calls < MaxLongCalls /\ Call(LongInputs)

SpecLong == Init /\ [][NextLong]_vars

NextTurns ==
    \/ calls < MaxTurnCalls /\ Call(TurnInputs)
    \/ ClearContext

SpecTurns == Init /\ [][NextTurns]_vars

\* the calls of get_response over a knowledge base some of whose records
\* may lack a key
InitKnowledge == \E base \in KnowledgeBases : Constructed(base)

KnowledgeCall ==
    \E user_input \in KnowledgeInputs :
      /\ Ask(user_input, KnowledgeCollaborators)
      /\ UNCHANGED <<kb, startup, probe, served, threads>>

NextKnowledge == calls < MaxKnowledgeCalls /\ KnowledgeCall

SpecKnowledge == InitKnowledge /\ [][NextKnowledge]_vars

\* the requests of two clients to /api/chat: the module holds one Chatbot
\* (line 50), which answers both
NextShared == Len(served) < MaxSharedRequests /\ Chat(SharedPayloads, Clients, {0}, Collaborators)

SpecShared == Init /\ [][NextShared]_vars

\* the requests of one client, which does not wait for an answer before it
\* sends the next utterance, served by the threads
NextThreads ==
    \E t \in Threads :
      \/ /\ Len(served) + Cardinality(InFlight) < MaxThreadRequests
         /\ Receive(t, SharedPayloads, {"A"})
      \/ Resolve(t, Collaborators)
      \/ AppendTurn(t)
      \/ Generate(t)
      \/ Report(t, {0})

SpecThreads == Init /\ [][NextThreads]_vars

\* the requests of one client to /api/chat
NextRoute == Len(served) < MaxRequests /\ Chat(RoutePayloads, {"A"}, Sentiments, Collaborators)

SpecRoute == Init /\ [][NextRoute]_vars

\* ================================================================ the claims

\* the texts the claims name
TextCse == <<"c","s","e">>

TextThree == <<"3">>

TextShowAllCourses == <<"s","h","o","w"," ","a","l","l"," ","c","o","u","r","s","e","s">>

TextWeather == <<"w","h","a","t","'","s"," ","t","h","e"," ","w","e","a","t","h","e","r"," ","t","o","d","a","y">>

TextHostelFood == <<"h","o","s","t","e","l"," ","f","o","o","d">>

TextMech == <<"m","e","c","h">>

\* the state is the outcome of a call of get_response
Called == last.stage # "none"

\* the step is a call of get_response
IsCall == calls' = calls + 1

\* what the scorer's stage accepts, for every answer of the scorer in the model
FuzzyIntentOf == [s \in FuzzyScores \cup {NoScores} |-> FuzzyIntent(s)] @@ <<>>

\* the first intent of exact_matches, in table order, one of whose keywords is
\* a substring of text_lower
FirstKeywordIntent(text_lower) ==
    exact_matches[CHOOSE i \in 1..Len(exact_matches) :
                    /\ AnyIn(exact_matches[i].keywords, text_lower)
                    /\ \A j \in 1..(i - 1) : ~AnyIn(exact_matches[j].keywords, text_lower)].intent

\* ------------------------------------------------------------------------ C1
\* C1: after any sequence of get_response calls the context holds at most
\* max_context turns, and it is the most recent turns ever appended, in the
\* order of their appending: an overflow drops the oldest turns first.
C1_ContextBoundedFifo ==
    /\ Len(context) <= max_context
    /\ Len(context) = (IF Len(log) <= max_context THEN Len(log) ELSE max_context)
    /\ \A i \in 1..Len(context) : context[i] = log[Len(log) - Len(context) + i]

\* an append has overflowed the capacity: the first turn is gone
C1_Witness ==
    /\ Len(log) > max_context
    /\ Len(context) = max_context
    /\ context[1] = log[Len(log) - max_context + 1]
    /\ context[1] # log[1]

\* ------------------------------------------------------------------------ C2
\* C2: when the first turn sets the department to CSE, the second turn "show
\* all courses" leaves the remembered department absent at its end, and the
\* third turn "3" resolves to no department and is answered by the full
\* program listing.
C2_ResetClearsSticky ==
    /\ ( /\ calls = 2 /\ Len(log) = 2
         /\ log[1].input = TextCse /\ log[2].input = TextShowAllCourses )
       => current_department = None
    /\ ( /\ calls = 3 /\ Len(log) = 3
         /\ log[1].input = TextCse /\ log[2].input = TextShowAllCourses
         /\ log[3].input = TextThree )
       => (last.dept = None /\ last.reply.kind = "program_listing")

\* ------------------------------------------------------------------------ C3
\* C3: with CSE as the remembered department and a 'courses' turn in the
\* context, the bare input "3" resolves to the intent courses with the
\* semester "3" and the effective department CSE.
C3_StickyPersists ==
    [][ ( /\ IsCall
          /\ current_department = CSE
          /\ HasCoursesTurn(context)
          /\ last'.input = TextThree )
        => ( /\ last'.resolved
             /\ last'.intent_tag = "courses"
             /\ last'.entities.semester = TextThree
             /\ last'.entities.department = None
             /\ last'.dept = CSE
             /\ current_department' = CSE ) ]_vars

\* the dialogue "cse", "3": the second turn is answered for CSE
C3_Witness ==
    /\ calls = 2 /\ Len(log) = 2
    /\ log[1].input = TextCse
    /\ log[2] = [input |-> TextThree, intent |-> "courses",
                 entities |-> [department |-> None, semester |-> TextThree, faculty_name |-> None]]
    /\ last.input = TextThree
    /\ last.dept = CSE
    /\ current_department = CSE

\* ------------------------------------------------------------------------ C4
\* C4: a remembered department changes only in a call whose input holds a
\* reset keyword or a department keyword of dept_mapping (and then to that
\* keyword's department); no other call changes it, however many turns have
\* been appended and evicted since it was set.
C4_StickySurvivesEviction ==
    [][ (current_department # None /\ current_department' # current_department)
        => ( /\ IsCall
             /\ \/ Analysed[last'.input].reset
                \/ /\ MappedDeptOf[last'.input] # None
                   /\ current_department' = MappedDeptOf[last'.input] ) ]_vars

\* the turn that set the department has been evicted, the department is still remembered
C4_Witness ==
    /\ Len(log) > max_context
    /\ log[1].input = TextCse
    /\ \A i \in 1..Len(context) : MappedDeptOf[context[i].input] = None
    /\ \A i \in 1..Len(context) : context[i].entities.department = None
    /\ current_department = CSE
    /\ last.dept = CSE

\* ------------------------------------------------------------------------ C5
\* C5: after every turn whose extracted entities carry a department, the
\* remembered department is that department.
C5_StickySetOnDetection ==
    (Called /\ last.resolved /\ last.entities.department # None)
        => current_department = last.entities.department

\* ------------------------------------------------------------------------ C6
\* C6 as stated: every input of at most 3 tokens that is not a bare integer
\* and contains a keyword of the exact-match table for intent I resolves to I.
C6_StageBAsStated ==
    Called =>
      \A i \in 1..Len(exact_matches) :
        ( /\ Analysed[last.input].tokens <= ExactQueryTokens
          /\ ~Analysed[last.input].bare_integer
          /\ AnyIn(exact_matches[i].keywords, Analysed[last.input].text_lower) )
        => last.intent_tag = exact_matches[i].intent

\* C6 amended: every input of at most 3 tokens that is not a bare integer, on
\* which the forced override does not fire, and that contains a keyword of
\* the exact-match table, resolves to the first intent of the table, in
\* table order, with such a keyword, whatever the similarity scorer and the
\* classifier would answer.
C6_StageB ==
    [][ IsCall =>
          \A a \in {Analysed[last'.input]} :
            ( /\ a.tokens <= ExactQueryTokens
              /\ ~a.bare_integer
              /\ ~ForcedOverride(a, context)
              /\ \E i \in 1..Len(exact_matches) : AnyIn(exact_matches[i].keywords, a.text_lower) )
            => \A first \in {FirstKeywordIntent(a.text_lower)} :
                 /\ last'.resolved
                 /\ last'.intent_tag = first
                 /\ \A s \in FuzzyScores : \A r \in ClassifierResults :
                      Cascade(a, context, s, r).intent_tag = first ]_vars

\* "hostel food" holds a keyword of hostel and one of canteen: it resolves to hostel
C6_Witness ==
    /\ Called
    /\ last.input = TextHostelFood
    /\ last.stage = "B"
    /\ last.intent_tag = "hostel"
    /\ AnyIn(exact_matches[7].keywords, TextHostelFood)

\* ------------------------------------------------------------------------ C7
\* C7: every input that is a department keyword and nothing else (at most 5
\* tokens) resolves to the intent courses, whatever the context holds.
C7_DeptKeywordForcesCourses ==
    ( /\ Called
      /\ \E k \in 1..Len(dept_keywords) : Analysed[last.input].text_lower = dept_keywords[k]
      /\ Analysed[last.input].tokens <= ShortQueryTokens )
    => (last.resolved /\ last.intent_tag = "courses")

\* a department keyword after a turn of another intent
C7_Witness ==
    /\ calls = 2 /\ Len(log) = 2
    /\ log[1].intent = "hostel"
    /\ last.input = TextMech
    /\ log[2].intent = "courses"
    /\ last.intent_tag = "courses"

\* ------------------------------------------------------------------------ C8
\* C8: a bare-integer input is forced to courses by the override exactly
\* when the most recent turn of the context has the intent courses.
C8_BareIntegerNeedsCoursesTurn ==
    [][ (IsCall /\ Analysed[last'.input].bare_integer)
        => ( last'.stage = "A"
             <=> (context # <<>> /\ context[Len(context)].intent = "courses") ) ]_vars

\* ------------------------------------------------------------------------ C9
\* C9: the cascade takes the first of: the forced override, the exact table,
\* the similarity scorer, the classifier, and asks a stage only when every
\* earlier one chose nothing; whatever the later stages would answer, the
\* intent is the one of the first stage that chooses.
C9_CascadeOrder ==
    [][ IsCall =>
          \A a \in {Analysed[last'.input]} : \A forced \in {ForcedOverride(a, context)} :
          \A fuzzy \in {FuzzyIntentOf[last'.scores]} :
            /\ forced =>
                 /\ last'.intent_tag = "courses"
                 /\ \A s \in FuzzyScores : \A r \in ClassifierResults :
                      Cascade(a, context, s, r).intent_tag = "courses"
            /\ (~forced /\ a.exact # NoIntent) =>
                 /\ last'.intent_tag = a.exact
                 /\ \A s \in FuzzyScores : \A r \in ClassifierResults :
                      Cascade(a, context, s, r).intent_tag = a.exact
            /\ (~forced /\ a.exact = NoIntent /\ fuzzy # NoIntent) =>
                 /\ last'.intent_tag = fuzzy
                 /\ \A r \in ClassifierResults :
                      Cascade(a, context, last'.scores, r).intent_tag = fuzzy
            /\ (~forced /\ a.exact = NoIntent /\ fuzzy = NoIntent) =>
                 last'.intent_tag = last'.result.tag
            /\ "A" \in last'.stages
            /\ "B" \in last'.stages <=> ~forced
            /\ "C" \in last'.stages <=> (~forced /\ a.exact = NoIntent)
            /\ "D" \in last'.stages <=> (~forced /\ a.exact = NoIntent /\ fuzzy = NoIntent) ]_vars

\* the scorer would have chosen 'fees' for an input that the exact table
\* does not know, and was the stage that chose
C9_Witness ==
    /\ Called
    /\ last.stage = "C"
    /\ last.stages = {"A", "B", "C"}
    /\ last.intent_tag = "fees"
    /\ last.scores["fees"] > FuzzyThreshold
    /\ last.result = NoResult

\* ----------------------------------------------------------------------- C10
\* C10: when no stage before the classifier chooses an intent and the
\* classifier's confidence is below the floor, the call returns one of the
\* fixed fallback strings, not a canned or a knowledge-base reply, and
\* appends no turn.
C10_LowConfidenceFallback ==
    [][ ( /\ IsCall
          /\ last'.stage = "D"
          /\ last'.result.confidence < ConfidenceFloor )
        => ( /\ last'.reply.kind = "fallback"
             /\ \E i \in 1..Len(fallback_responses) : last'.reply.text = fallback_responses[i]
             /\ ~last'.resolved
             /\ context' = context
             /\ log' = log ) ]_vars

\* an out-of-domain input that the classifier answers with confidence 0.24
C10_Witness ==
    /\ Called
    /\ last.input = TextWeather
    /\ last.stage = "D"
    /\ last.result.confidence = 24
    /\ last.reply = [kind |-> "fallback", text |-> fallback_responses[2]]

\* ----------------------------------------------------------------------- C11
\* the step appends one turn, that of the call, to the back of the context;
\* the turns before it are the most recent turns of the context before the
\* step, unchanged and in their order, the oldest being dropped over capacity
AppendsOneTurn ==
    /\ context' # <<>>
    /\ context'[Len(context')]
          = [input |-> last'.input, intent |-> last'.intent_tag, entities |-> last'.entities]
    /\ Len(context') = (IF Len(context) < max_context THEN Len(context) + 1 ELSE max_context)
    /\ \A i \in 1..(Len(context') - 1) :
          context'[i] = context[Len(context) - (Len(context') - 1) + i]

\* C11 as stated: a call that resolves an intent appends exactly one turn,
\* and no other step changes the context: a turn leaves it only by eviction.
C11_TurnsAsStated ==
    [][ IF IsCall /\ last'.resolved THEN AppendsOneTurn ELSE context' = context ]_vars

\* C11 amended: a call that resolves an intent appends exactly one turn to
\* the back, the earlier turns staying as they are or leaving by eviction,
\* oldest first; a call that resolves none leaves the context as it is; the
\* only other change is clear_context, which removes all the turns at once.
C11_Turns ==
    [][ IF IsCall /\ last'.resolved THEN AppendsOneTurn
        ELSE IF IsCall THEN context' = context
        ELSE (context' = <<>> /\ last' = last /\ log' = log) ]_vars

\* eleven turns were appended since the last clear_context: the oldest was evicted
C11_Witness ==
    /\ Len(log) = max_context + 1
    /\ Len(context) = max_context
    /\ context[max_context] = log[Len(log)]
    /\ context[1] = log[2]

\* ----------------------------------------------------------------------- C12
\* C12: generating the reply leaves the history and the remembered
\* department as they were when generation started, that is, the history
\* with the turn of the call appended and the department left by the reset
\* test at the head of the call.
C12_GenerationHasNoSideEffect ==
    [][ (IsCall /\ last'.resolved)
        => ( /\ AppendsOneTurn
             /\ current_department' = AfterReset(Analysed[last'.input], current_department) ) ]_vars

\* ----------------------------------------------------------------------- C15
\* C15: the semester of the entities of every call, and of every turn of the
\* context, is absent or one of the numerals "1" to "8".
C15_SemesterNumeral ==
    /\ Called => last.entities.semester \in SemesterNumerals \cup {None}
    /\ \A i \in 1..Len(context) : context[i].entities.semester \in SemesterNumerals \cup {None}

\* ----------------------------------------------------------------------- C16
\* the department a turn yields to a later 'courses' turn: that of its
\* entities, else that of a dept_mapping keyword in its input
YieldedDept(turn) ==
    IF turn.entities.department # None THEN turn.entities.department
    ELSE MappedDeptOf[turn.input]

\* the department of the entities of the most recent 'courses' turn of a history
LatestCoursesDept(history) ==
    IF \E i \in 1..Len(history) : history[i].intent = "courses"
    THEN history[MaxOf({i \in 1..Len(history) : history[i].intent = "courses"})].entities.department
    ELSE None

\* the department yielded by the most recent 'courses' turn of a history that yields one
LatestYieldedDept(history) ==
    IF \E i \in 1..Len(history) : history[i].intent = "courses" /\ YieldedDept(history[i]) # None
    THEN YieldedDept(history[MaxOf({i \in 1..Len(history) :
                                      history[i].intent = "courses" /\ YieldedDept(history[i]) # None})])
    ELSE None

\* the reply lists every program in exactly one group, the postgraduate one
\* if and only if its name holds "MCA" or "MBA"
ListsAllPrograms(reply) ==
    /\ reply.kind = "program_listing"
    /\ \A n \in 1..Len(dept_names) :
         LET isPg == \/ Contains(<<"M","C","A">>, dept_names[n])
                     \/ Contains(<<"M","B","A">>, dept_names[n])
             inUg == \E i \in 1..Len(reply.ug) : reply.ug[i] = dept_names[n]
             inPg == \E i \in 1..Len(reply.pg) : reply.pg[i] = dept_names[n]
         IN (inPg <=> isPg) /\ (inUg <=> ~isPg)
    /\ Len(reply.ug) + Len(reply.pg) = Len(dept_names)

\* C16 as stated: the effective department of a 'courses' turn is that of
\* its entities, else the remembered one, else that of the most recent
\* 'courses' turn of the history; with none of them the reply lists all
\* the programs.
C16_DeptPriorityAsStated ==
    [][ (IsCall /\ last'.resolved /\ last'.intent_tag = "courses")
        => \A sticky \in {AfterReset(Analysed[last'.input], current_department)} :
           \A history \in {SubSeq(context', 1, Len(context') - 1)} :
             /\ last'.dept = (IF last'.entities.department # None THEN last'.entities.department
                              ELSE IF sticky # None THEN sticky
                              ELSE LatestCoursesDept(history))
             /\ last'.dept = None => ListsAllPrograms(last'.reply) ]_vars

\* C16 amended: the effective department of a 'courses' turn is that of the
\* first dept_mapping keyword held by the input, else that of the entities,
\* else the remembered one, else the one yielded by the most recent earlier
\* 'courses' turn that yields one (by its entities, else by a keyword of its
\* input); with none of them the reply lists all the programs, each in
\* exactly one group.
C16_DeptPriority ==
    [][ (IsCall /\ last'.resolved /\ last'.intent_tag = "courses")
        => \A sticky \in {AfterReset(Analysed[last'.input], current_department)} :
           \A history \in {SubSeq(context', 1, Len(context') - 1)} :
             /\ last'.dept = (IF MappedDeptOf[last'.input] # None THEN MappedDeptOf[last'.input]
                              ELSE IF last'.entities.department # None THEN last'.entities.department
                              ELSE IF sticky # None THEN sticky
                              ELSE LatestYieldedDept(history))
             /\ last'.dept = None => ListsAllPrograms(last'.reply) ]_vars

\* "cse", "3", "show all courses": nothing in the input, nothing remembered
\* after the reset, the latest 'courses' turn yields nothing, the one before
\* yields CSE
C16_Witness ==
    /\ calls = 3 /\ Len(log) = 3
    /\ log[1].input = TextCse
    /\ log[2].input = TextThree
    /\ log[3].input = TextShowAllCourses
    /\ last.entities.department = None
    /\ last.dept = CSE

\* ----------------------------------------------------------------------- C17
\* C17 as stated: after max_context + k turns were appended the context
\* holds exactly max_context turns, and they are the k most recent ones.
C17_EvictionAsStated ==
    Len(log) > max_context
    => ( /\ Len(context) = max_context
         /\ context = SubSeq(log, max_context + 1, Len(log)) )

\* C17 amended: after max_context + k turns were appended the context holds
\* exactly max_context turns, and they are the max_context most recent
\* ones, in the order of their appending.
C17_Eviction ==
    Len(log) >= max_context
    => ( /\ Len(context) = max_context
         /\ context = SubSeq(log, Len(log) - max_context + 1, Len(log)) )

\* one turn over the capacity: the turns 2 to 11 are kept
C17_Witness ==
    /\ Len(log) = max_context + 1
    /\ context = SubSeq(log, 2, max_context + 1)

\* ----------------------------------------------------------------------- C18
\* the step is a request to /api/chat
IsRequest == Len(served') = Len(served) + 1

\* the message of the payload is a string, empty once stripped (an absent
\* message defaults to the empty string)
EmptyMessage(payload) == payload.kind \in {"text", "absent"} /\ Strip(payload.message) = <<>>

\* C18: a request whose message is empty or whitespace only is answered with
\* the status 400; get_response is not called, and the history and the
\* remembered department are as they were before the request.
C18_EmptyMessageRejected ==
    [][ (IsRequest /\ EmptyMessage(served'[Len(served')].payload))
        => /\ served'[Len(served')].status = 400
           /\ calls' = calls
           /\ last' = last
           /\ context' = context
           /\ log' = log
           /\ current_department' = current_department ]_vars

\* "cse" is answered, then a message of two blanks is rejected: the history
\* holds the one turn and CSE is still remembered
C18_Witness ==
    /\ Len(served) = 2
    /\ served[1].payload = TextPayload(TextCse) /\ served[1].status = 200
    /\ served[2].payload = TextPayload(<<" "," ">>) /\ served[2].status = 400
    /\ calls = 1
    /\ Len(context) = 1
    /\ current_department = CSE

\* ----------------------------------------------------------------------- C19
\* C19: a request whose message is a string that is not empty once stripped
\* is answered, over a knowledge base whose records hold all their keys,
\* with the status 200 and a body that holds 'reply': get_response was
\* called once and returned a reply without raising.
C19_EveryMessageAnswered ==
    [][ (IsRequest /\ served'[Len(served')].payload.kind = "text"
                   /\ Strip(served'[Len(served')].payload.message) # <<>>)
        => /\ calls' = calls + 1
           /\ ~last'.raised
           /\ last'.reply.kind \notin {"raised", "none"}
           /\ served'[Len(served')].status = 200
           /\ "reply" \in DOMAIN served'[Len(served')].body
           /\ served'[Len(served')].body.reply.text = last'.reply ]_vars

\* the weather question, which no stage resolves, after "events": both are
\* answered with 200, the second one with a fallback reply
C19_Witness ==
    /\ Len(served) = 2
    /\ served[1].payload = TextPayload(<<"e","v","e","n","t","s">>)
    /\ served[1].status = 200 /\ served[1].body.reply.text.kind = "events_listing"
    /\ served[2].payload = TextPayload(TextWeather)
    /\ served[2].status = 200 /\ served[2].body.reply.text.kind = "fallback"
    /\ calls = 2

\* ----------------------------------------------------------------------- C20
\* C20 as stated: whatever key a record of the knowledge base lacks, a call
\* of get_response raises no exception and returns a reply, in which a
\* default stands for the missing value.
C20_MissingFieldNeverFails ==
    Called => ( /\ ~last.raised
                /\ last.reply.kind # "raised"
                /\ last.reply.kind = "events_listing"
                     => \A i \in 1..Len(kb.upcoming) :
                          last.reply.lines[i][3] = Get(kb.upcoming[i], "location", "TBA") )

\* ----------------------------------------------------------------------- C14
\* the payloads that the client of the i-th request has sent up to it, that
\* request included
OwnPayloads(i) ==
    [k \in 1..Len(SelectSeq(SubSeq(served, 1, i), LAMBDA e : e.client = served[i].client)) |->
       SelectSeq(SubSeq(served, 1, i), LAMBDA e : e.client = served[i].client)[k].payload]

\* C14 as stated: the reply and the intent that a request is answered with
\* depend on the earlier utterances of its own conversation alone: two
\* requests whose clients have sent the same utterances so far get the same
\* reply and the same intent, whatever the other client has sent meanwhile.
\* (The utterances of SpecShared are decided without a collaborator and are
\* scored neutral, so that the answer is a function of the state of the Chatbot.)
C14_ConversationsIndependent ==
    \A i, j \in 1..Len(served) :
      OwnPayloads(i) = OwnPayloads(j)
      => /\ served[i].status = served[j].status
         /\ served[i].body.reply = served[j].body.reply
         /\ served[i].body.intent = served[j].body.intent

\* ----------------------------------------------------------------------- C13
\* the request of thread t has appended its turn and has not yet been answered
AfterAppend(t) == threads[t].pc \in {"appended", "returned"}

\* C13 as stated: at most one request is in flight at a time, and while a
\* request is between its append to the history and its answer, no step of
\* another request changes the history or the remembered department.
C13_OneResolutionInFlight ==
    [][ /\ Cardinality(InFlight') <= 1
        /\ \A t \in Threads :
             (AfterAppend(t) /\ threads'[t] = threads[t])
             => (context' = context /\ current_department' = current_department) ]_vars

\* ----------------------------------------------------------------------- C25
\* C25 as stated: the intent in the answer to a request is the one resolved
\* for the message of that request; when the call ended in the
\* low-confidence fallback, the answer names no intent (or, at most, the
\* tag that the classifier proposed for this message), never the intent of
\* an earlier turn.
C25_ReportedIntentIsOwn ==
    [][ (IsRequest /\ served'[Len(served')].status = 200)
        => IF last'.resolved
           THEN served'[Len(served')].body.intent = last'.intent_tag
           ELSE served'[Len(served')].body.intent \in {"", last'.result.tag} ]_vars

\* ----------------------------------------------------------------------- C24
\* C24 as stated: for every entry (keyword, department) of dept_mapping, a
\* call whose input is the keyword is answered for that department, which
\* is the remembered department afterwards.
C24_KeywordNamesItsDepartment ==
    [][ IsCall
        => \A k \in 1..Len(dept_mapping) :
             last'.input = dept_mapping[k].keyword
             => /\ last'.resolved
                /\ last'.intent_tag = "courses"
                /\ last'.dept = dept_mapping[k].full_name
                /\ current_department' = dept_mapping[k].full_name ]_vars

\* ----------------------------------------------------------------------- C21
\* C21: when one of the model artifacts is missing or does not load, the
\* construction of the Chatbot fails with an error; an instance exists, and
\* get_response has answered, only when every artifact was loaded.
C21_ArtifactFailureIsFatal ==
    /\ (startup.instance # "absent" /\ \E i \in 1..Len(model_artifacts) :
                                          startup.artifacts[model_artifacts[i]] # "ok")
       => (startup.instance = "failed" /\ startup.error # "")
    /\ (startup.instance = "live" \/ Called \/ context # <<>>)
       => \A i \in 1..Len(model_artifacts) : startup.artifacts[model_artifacts[i]] = "ok"

\* the model and the vectorizer load, the tags do not: the construction
\* has failed at the tags and nothing was answered
C21_Witness ==
    /\ startup.artifacts["model"] = "ok"
    /\ startup.artifacts["vectorizer"] = "ok"
    /\ startup.artifacts["tags"] = "corrupt"
    /\ startup.instance = "failed"
    /\ startup.artifact = "tags"
    /\ startup.error = "UnpicklingError"
    /\ calls = 0

\* ----------------------------------------------------------------------- C22
\* C22 as stated: for every text x, clean_text(clean_text(x)) = clean_text(x).
C22_CleanTextIdempotent ==
    (probe.fn = "clean_text" /\ Len(probe.outputs) >= 2)
    => probe.outputs[2] = probe.outputs[1]

\* ----------------------------------------------------------------------- C23
\* C23: Stage C scores a pattern by the larger of its partial and token-set
\* scores.  When the highest score over the patterns is above 60, the call
\* is resolved at Stage C to the first pattern, in the order of
\* intent_patterns, that has the highest score; when it is 60 or less,
\* Stage C resolves nothing and the answer of the classifier is taken at Stage D.
C23_StageCBestMatch ==
    (probe.fn = "scores" /\ Called)
    => \A top \in {MaxOf({Max(probe.partial[t], probe.token_set[t]) : t \in DOMAIN probe.partial})} :
         IF top > 60
         THEN /\ last.stage = "C"
              /\ last.resolved
              /\ \E i \in 1..Len(intent_patterns) :
                   /\ last.intent_tag = intent_patterns[i]
                   /\ Max(probe.partial[intent_patterns[i]], probe.token_set[intent_patterns[i]]) = top
                   /\ \A j \in 1..(i - 1) :
                        Max(probe.partial[intent_patterns[j]], probe.token_set[intent_patterns[j]]) < top
         ELSE /\ last.stage = "D"
              /\ last.result \in ClassifierResults
              /\ last.intent_tag = last.result.tag

\* 'greeting' reaches 61 by its token-set score and 'alumni' by its partial
\* score, 'fees' stays at 60: the tie is resolved to 'greeting', the first
C23_Witness ==
    /\ probe.fn = "scores" /\ Called
    /\ probe.partial["greeting"] = 0 /\ probe.token_set["greeting"] = 61
    /\ probe.partial["alumni"] = 61 /\ probe.token_set["alumni"] = 60
    /\ probe.partial["fees"] = 60 /\ probe.token_set["fees"] = 60
    /\ last.stage = "C"
    /\ last.intent_tag = "greeting"

====
